---- MODULE Spec2Model ----
(***************************************************************************)
(* Concentrated-liquidity batch position engine of the Kuru SDK            *)
(* (PositionViewer + getLPSummaryForMinSize).                              *)
(*                                                                         *)
(* One call of get{Spot,Curve,BidAsk}BatchLPDetails is a run of the state  *)
(* machine: Enter (range pre-check, missing-total check, tick alignment),  *)
(* the bid loop, the ask loop, and Finish (liquidity distribution, the     *)
(* final sort, getLPSummaryForMinSize, return).                            *)
(*                                                                         *)
(* bigint arithmetic: `/` truncates toward zero and `%` takes the sign of  *)
(* the dividend (BigDiv, BigMod); a division by 0n throws a RangeError.    *)
(***************************************************************************)
EXTENDS Integers, Sequences, FiniteSets, TLC

VARIABLES args, pc, currentPrice, bids, asks, result, err

vars == <<args, pc, currentPrice, bids, asks, result, err>>

----------------------------------------------------------------------------
(* Bounds of the model *)

MaxStartPrice == 6
MaxEndPrice == 9
MaxBestAsk == 7
MaxTick == 3
MaxPricePoints == 3
MaxLiquidity == 6
MaxNumPricePoints == 4

\* bounds of the direct calls of the exported helpers
MaxPrice == 12
MaxSizePrecision == 12
MaxBidSize == 12
MaxPositionSize == 2
MaxFactor == 8
MaxDenominator == 8
MaxBigNumber == 1001

\* cap of the model on the ladder length: strictly increasing prices below
\* endPrice never reach it
MaxLadder == MaxEndPrice + 2

(* Program constant *)
FEE_DENOMINATOR == 10000

----------------------------------------------------------------------------
(* bigint arithmetic *)

Abs(a) == IF a < 0 THEN -a ELSE a

\* bigint a / b for b # 0: truncation toward zero
BigDiv(a, b) ==
    IF (a >= 0) = (b > 0) THEN Abs(a) \div Abs(b) ELSE -(Abs(a) \div Abs(b))

\* bigint a % b for b # 0: sign of the dividend
BigMod(a, b) == a - b * BigDiv(a, b)

Min(a, b) == IF a < b THEN a ELSE b

RECURSIVE Pow(_, _)
Pow(b, n) == IF n <= 0 THEN 1 ELSE b * Pow(b, n - 1)

RECURSIVE Gcd(_, _)
Gcd(a, b) == IF b = 0 THEN a ELSE Gcd(b, a % b)

RECURSIVE SumSeq(_)
SumSeq(s) == IF s = <<>> THEN 0 ELSE Head(s) + SumSeq(Tail(s))

\* an optional argument: <<>> is undefined, <<v>> is the value v
Defined(x) == x # <<>>
Val(x) == x[1]

----------------------------------------------------------------------------
(* FixedPointMath *)

\* the quotient left rounded down
mulDivDown(x, y, d) == IF d = 0 THEN "MulDivFailed" ELSE BigDiv(x * y, d)

\* ceiling of x * y / d; "MulDivFailed" when d = 0.  The overflow test
\* (z / y !== x) is never true of bigints.
mulDivUp(x, y, d) ==
    IF d = 0 THEN "MulDivFailed"
    ELSE LET z == x * y
             remainder == BigMod(z, d)
             quotient == BigDiv(z, d)
         IN  IF remainder = 0 THEN quotient ELSE quotient + 1

\* the step taken off the size rounded down instead of up
normalizeBidSizeFloorStep(price, sizePrecision, bidSize) ==
    IF mulDivUp(price, bidSize, sizePrecision) > BigDiv(price * bidSize, sizePrecision)
    THEN bidSize - BigDiv(sizePrecision, price)
    ELSE bidSize

normalizeBidSize(price, sizePrecision, bidSize) ==
    IF mulDivUp(price, bidSize, sizePrecision) > BigDiv(price * bidSize, sizePrecision)
    THEN bidSize - mulDivUp(1, sizePrecision, price)
    ELSE bidSize

----------------------------------------------------------------------------
(* utils/math *)

\* bigint.toString(): the decimal digits, most significant first, after a "-"
\* for a negative number
RECURSIVE digitsOf(_)
digitsOf(n) == IF n < 10 THEN <<n>> ELSE Append(digitsOf(n \div 10), n % 10)
toString(bn) == IF bn < 0 THEN <<"-">> \o digitsOf(-bn) ELSE digitsOf(bn)

\* the length of the string taken for the result
log10BigNumberLength(bn) == Len(toString(bn))

\* bnString.length - 1 (the throw for bn = 0 is in the caller's step)
log10BigNumber(bn) == Len(toString(bn)) - 1

----------------------------------------------------------------------------
(* GridGenerator *)

\* the step rule without the forced tick of progress
nextPriceNoForce(price, minFeesBps, tickSize) ==
    LET raw == BigDiv(price * (FEE_DENOMINATOR + minFeesBps), FEE_DENOMINATOR)
    IN  raw - BigMod(raw, tickSize)

\* nextPrice = floor_to_tick(price * (FEE_DENOMINATOR + minFeesBps) / FEE_DENOMINATOR),
\* one tick above price when that is price itself
nextPrice(price, minFeesBps, tickSize) ==
    LET raw == BigDiv(price * (FEE_DENOMINATOR + minFeesBps), FEE_DENOMINATOR)
        aligned == raw - BigMod(raw, tickSize)
    IN  IF aligned = price THEN price + tickSize ELSE aligned

\* the bid flipped at its own next step
bidFlipPriceOneStep(next, minFeesBps, tickSize) == next

\* flipPrice of the bid whose next step is `next`
bidFlipPrice(next, minFeesBps, tickSize) == nextPrice(next, minFeesBps, tickSize)

\* the ask's flipPrice without the forced tick below price
askFlipPriceNoForce(price, minFeesBps, tickSize) ==
    LET raw == BigDiv(price * (FEE_DENOMINATOR - minFeesBps) * (FEE_DENOMINATOR - minFeesBps),
                      FEE_DENOMINATOR * FEE_DENOMINATOR)
    IN  raw - BigMod(raw, tickSize)

\* flipPrice of the ask at `price`
askFlipPrice(price, minFeesBps, tickSize) ==
    LET raw == BigDiv(price * (FEE_DENOMINATOR - minFeesBps) * (FEE_DENOMINATOR - minFeesBps),
                      FEE_DENOMINATOR * FEE_DENOMINATOR)
        flip == IF raw = price THEN price - tickSize ELSE raw
    IN  flip - BigMod(flip, tickSize)

\* the pre-check with <= weakened to <
maxReachableFailsStrict(reachable, endPrice) == reachable < endPrice

\* the test of the pre-check: the range is too wide
maxReachableFails(reachable, endPrice) == reachable <= endPrice

\* maxReachablePrice = startPrice * (FEE_DENOMINATOR + minFeesBps)^maxPricePoints
\*                     / FEE_DENOMINATOR^maxPricePoints.
\* The two powers are bigints in the source; here numerator and denominator
\* are first divided by their gcd, which leaves the quotient unchanged and
\* keeps the powers inside the checker's integers.
maxReachablePrice(startPrice, minFeesBps, maxPricePoints) ==
    LET g == Gcd(FEE_DENOMINATOR + minFeesBps, FEE_DENOMINATOR)
        feeNumeratorPower == Pow((FEE_DENOMINATOR + minFeesBps) \div g, maxPricePoints)
        feeDenominatorPower == Pow(FEE_DENOMINATOR \div g, maxPricePoints)
    IN  BigDiv(startPrice * feeNumeratorPower, feeDenominatorPower)

\* the alignment of startPrice left out
alignStartNone(startPrice, tickSize) == startPrice

alignStart(startPrice, tickSize) == startPrice - BigMod(startPrice, tickSize)

\* the bid loop bounded by endPrice alone
maxPriceEndOnly == args.endPrice

\* maxPrice = Math.min(Number(bestAskPrice), Number(endPrice)); Number() is
\* exact on the prices of the model (below 2^53)
maxPrice == Min(args.bestAskPrice, args.endPrice)

\* getFirstAskPrice: 0 when endPrice < bestAskPrice, else the first price at or
\* above bestAskPrice of the walk from the aligned startPrice (the step rule
\* is written out in the loop body, as in the source)
RECURSIVE firstAskWalk(_, _, _, _)
firstAskWalk(startPrice, bestAskPrice, minFeesBps, tickSize) ==
    IF ~(startPrice < bestAskPrice) THEN startPrice
    ELSE LET raw == BigDiv(startPrice * (FEE_DENOMINATOR + minFeesBps), FEE_DENOMINATOR)
             aligned == raw - BigMod(raw, tickSize)
             next == IF aligned = startPrice THEN startPrice + tickSize ELSE aligned
         IN  firstAskWalk(next, bestAskPrice, minFeesBps, tickSize)

getFirstAskPrice(minFeesBps, startPrice, endPrice, bestAskPrice, tickSize) ==
    IF endPrice < bestAskPrice THEN 0
    ELSE firstAskWalk(startPrice - BigMod(startPrice, tickSize), bestAskPrice,
                      minFeesBps, tickSize)

Position(price, flipPrice, liquidity) ==
    [price |-> price, flipPrice |-> flipPrice, liquidity |-> liquidity]

----------------------------------------------------------------------------
(* LiquidityAllocator *)

Q10(a) == Pow(10, a.quoteAssetDecimals)
B10(a) == Pow(10, a.baseAssetDecimals)

Thrown(e) ==
    [err |-> e, bids |-> <<>>, asks |-> <<>>, quoteLiquidity |-> 0,
     baseLiquidity |-> 0, minSizeError |-> FALSE]

Allocated(bs, as, q, b, flag) ==
    [err |-> "", bids |-> bs, asks |-> as, quoteLiquidity |-> q,
     baseLiquidity |-> b, minSizeError |-> flag]

\* some position's price makes the divisor price * 10^quoteAssetDecimals zero:
\* the bigint division throws a RangeError
ZeroPrice(a, s) == \E i \in 1..Len(s) : s[i].price * Q10(a) = 0

\* the size rounded up instead of down
sizeForQuoteCeil(a, quote, price) ==
    mulDivUp(quote * a.sizePrecision, a.pricePrecision, price * Q10(a))

\* size = quoteShare * sizePrecision * pricePrecision / (price * 10^quoteAssetDecimals)
sizeForQuote(a, quote, price) ==
    BigDiv(quote * a.sizePrecision * a.pricePrecision, price * Q10(a))

\* base amount of a quote share at a price (Curve and Bid-Ask accumulate it)
baseForQuote(a, quote, price) ==
    BigDiv(quote * B10(a) * a.pricePrecision, Q10(a) * price)

\* the bids with liquidity normalizeBidSize(price, sizePrecision, size[i])
WithBidSizes(a, bs, size) ==
    [i \in 1..Len(bs) |->
        [bs[i] EXCEPT !.liquidity = normalizeBidSize(bs[i].price, a.sizePrecision, size[i])]]

WithLiquidity(s, size) ==
    [i \in 1..Len(s) |-> [s[i] EXCEPT !.liquidity = size[i]]]

AnyBelow(size, minSize) == \E i \in 1..Len(size) : size[i] < minSize

Liquidities(s) == [i \in 1..Len(s) |-> s[i].liquidity]

\* getSpotBatchLPDetails, only quoteLiquidity given
SpotQuoteGiven(a, bs, as) ==
    LET numBids == Len(bs)
        quoteLiquidity == Val(a.quoteLiquidity)
    IN  IF numBids = 0 \/ ZeroPrice(a, bs) \/ ZeroPrice(a, as) THEN Thrown("RangeError")
        ELSE
        LET quotePerTick == BigDiv(quoteLiquidity, numBids)
            bidSize == [i \in 1..Len(bs) |-> sizeForQuote(a, quotePerTick, bs[i].price)]
            askSize == [i \in 1..Len(as) |-> sizeForQuote(a, quotePerTick, as[i].price)]
            baseLiquidity ==
                SumSeq([i \in 1..Len(as) |-> BigDiv(askSize[i] * B10(a), a.sizePrecision)])
        IN  Allocated(WithBidSizes(a, bs, bidSize), WithLiquidity(as, askSize),
                      quoteLiquidity, baseLiquidity,
                      AnyBelow(bidSize, a.minSize) \/ AnyBelow(askSize, a.minSize))

\* getSpotBatchLPDetails, only baseLiquidity given
SpotBaseGiven(a, bs, as) ==
    LET baseLiquidity == Val(a.baseLiquidity)
        reciprocalSumScaled ==
            SumSeq([i \in 1..Len(as) |-> mulDivUp(a.pricePrecision, a.pricePrecision, as[i].price)])
    IN  IF ZeroPrice(a, as) THEN Thrown("MulDivFailed")
        ELSE IF reciprocalSumScaled = 0 THEN Thrown("DegenerateRange")
        ELSE
        LET askSize == [i \in 1..Len(as) |->
                BigDiv(baseLiquidity * a.sizePrecision * a.pricePrecision * a.pricePrecision,
                       reciprocalSumScaled * as[i].price * B10(a))]
            quotePerTick ==
                BigDiv(askSize[1] * as[1].price * Q10(a), a.sizePrecision * a.pricePrecision)
        IN  IF ZeroPrice(a, bs) THEN Thrown("RangeError")
            ELSE
            LET bidSize == [i \in 1..Len(bs) |-> sizeForQuote(a, quotePerTick, bs[i].price)]
                inferredQuoteLiquidity == quotePerTick * Len(bs)
            IN  Allocated(WithBidSizes(a, bs, bidSize), WithLiquidity(as, askSize),
                          inferredQuoteLiquidity, baseLiquidity,
                          AnyBelow(askSize, a.minSize) \/ AnyBelow(bidSize, a.minSize))

\* getSpotBatchLPDetails, both totals given
SpotBothGiven(a, bs, as) ==
    LET numBids == Len(bs)
        numAsks == Len(as)
        quoteLiquidity == Val(a.quoteLiquidity)
        baseLiquidity == Val(a.baseLiquidity)
    IN  IF ZeroPrice(a, bs) THEN Thrown("RangeError")
        ELSE
        LET askSize == [i \in 1..Len(as) |->
                BigDiv(baseLiquidity * a.sizePrecision, numAsks * B10(a))]
            bidSize == [i \in 1..Len(bs) |->
                BigDiv(quoteLiquidity * a.sizePrecision * a.pricePrecision,
                       numBids * bs[i].price * Q10(a))]
        IN  Allocated(WithBidSizes(a, bs, bidSize), WithLiquidity(as, askSize),
                      quoteLiquidity, baseLiquidity,
                      AnyBelow(askSize, a.minSize) \/ AnyBelow(bidSize, a.minSize))

SpotDistribute(a, bs, as) ==
    IF Defined(a.quoteLiquidity) /\ ~Defined(a.baseLiquidity) THEN SpotQuoteGiven(a, bs, as)
    ELSE IF Defined(a.baseLiquidity) /\ ~Defined(a.quoteLiquidity) THEN SpotBaseGiven(a, bs, as)
    ELSE SpotBothGiven(a, bs, as)

\* the unit without the factor 2 of the arithmetic series
quoteUnitNoDouble(total, n) == IF n > 0 THEN BigDiv(total, n * (n + 1)) ELSE 0

\* unit = 2 * total / (N * (N + 1)), 0 for an empty side
quoteUnit(total, n) == IF n > 0 THEN BigDiv(2 * total, n * (n + 1)) ELSE 0

\* getCurveBatchLPDetails, quoteLiquidity given (with or without baseLiquidity):
\* bid i (0-based, from the lowest price) gets i + 1 units, ask i gets numAsks - i
CurveQuoteGiven(a, bs, as) ==
    LET numBids == Len(bs)
        numAsks == Len(as)
        quoteLiquidity == Val(a.quoteLiquidity)
        quoteUnitForBids == quoteUnit(quoteLiquidity, numBids)
        quoteUnitForAsks == quoteUnit(quoteLiquidity, numAsks)
    IN  IF ZeroPrice(a, bs) \/ ZeroPrice(a, as) THEN Thrown("RangeError")
        ELSE
        LET bidSize == [i \in 1..numBids |->
                sizeForQuote(a, quoteUnitForBids * i, bs[i].price)]
            askSize == [i \in 1..numAsks |->
                sizeForQuote(a, quoteUnitForAsks * (numAsks - (i - 1)), as[i].price)]
            totalBaseLiquidity == SumSeq([i \in 1..numAsks |->
                baseForQuote(a, quoteUnitForAsks * (numAsks - (i - 1)), as[i].price)])
        IN  Allocated(WithBidSizes(a, bs, bidSize), WithLiquidity(as, askSize),
                      quoteLiquidity, totalBaseLiquidity,
                      AnyBelow(bidSize, a.minSize) \/ AnyBelow(askSize, a.minSize))

\* no asks answered with the unallocated ladder instead of the throw
CurveBaseGivenNoAsksReturned(a, bs, as) ==
    LET numBids == Len(bs)
        numAsks == Len(as)
        baseLiquidity == Val(a.baseLiquidity)
    IN  IF numAsks = 0 THEN Allocated(bs, as, 0, baseLiquidity, AnyBelow(Liquidities(bs), a.minSize))
        ELSE IF ZeroPrice(a, as) THEN Thrown("MulDivFailed")
        ELSE
        LET farthestAskPrice == as[numAsks].price
            weightedSumOfBaseRatios == SumSeq([i \in 1..numAsks |->
                mulDivUp((numAsks - (i - 1)) * farthestAskPrice, a.pricePrecision, as[i].price)])
            baseInFarthestAsk ==
                IF weightedSumOfBaseRatios > 0
                THEN BigDiv(baseLiquidity * a.pricePrecision, weightedSumOfBaseRatios)
                ELSE 0
            baseForThisAsk == [i \in 1..numAsks |->
                BigDiv((numAsks - (i - 1)) * baseInFarthestAsk * farthestAskPrice, as[i].price)]
            askSize == [i \in 1..numAsks |->
                BigDiv(baseForThisAsk[i] * a.sizePrecision, B10(a))]
            quoteFromAsks == SumSeq([i \in 1..numAsks |->
                BigDiv(baseForThisAsk[i] * as[i].price * Q10(a), B10(a) * a.pricePrecision)])
            totalQuoteLiquidity == IF numBids > 0 THEN quoteFromAsks ELSE 0
            quoteUnitForBids == quoteUnit(quoteFromAsks, numBids)
        IN  IF ZeroPrice(a, bs) THEN Thrown("RangeError")
            ELSE
            LET bidSize == [i \in 1..numBids |->
                    sizeForQuote(a, quoteUnitForBids * i, bs[i].price)]
            IN  Allocated(WithBidSizes(a, bs, bidSize), WithLiquidity(as, askSize),
                          totalQuoteLiquidity, baseLiquidity,
                          AnyBelow(askSize, a.minSize) \/ AnyBelow(bidSize, a.minSize))

\* getCurveBatchLPDetails, only baseLiquidity given
CurveBaseGiven(a, bs, as) ==
    LET numBids == Len(bs)
        numAsks == Len(as)
        baseLiquidity == Val(a.baseLiquidity)
    IN  IF numAsks = 0 THEN Thrown("DegenerateRange")
        ELSE IF ZeroPrice(a, as) THEN Thrown("MulDivFailed")
        ELSE
        LET farthestAskPrice == as[numAsks].price
            weightedSumOfBaseRatios == SumSeq([i \in 1..numAsks |->
                mulDivUp((numAsks - (i - 1)) * farthestAskPrice, a.pricePrecision, as[i].price)])
            baseInFarthestAsk ==
                IF weightedSumOfBaseRatios > 0
                THEN BigDiv(baseLiquidity * a.pricePrecision, weightedSumOfBaseRatios)
                ELSE 0
            baseForThisAsk == [i \in 1..numAsks |->
                BigDiv((numAsks - (i - 1)) * baseInFarthestAsk * farthestAskPrice, as[i].price)]
            askSize == [i \in 1..numAsks |->
                BigDiv(baseForThisAsk[i] * a.sizePrecision, B10(a))]
            quoteFromAsks == SumSeq([i \in 1..numAsks |->
                BigDiv(baseForThisAsk[i] * as[i].price * Q10(a), B10(a) * a.pricePrecision)])
            totalQuoteLiquidity == IF numBids > 0 THEN quoteFromAsks ELSE 0
            quoteUnitForBids == quoteUnit(quoteFromAsks, numBids)
        IN  IF ZeroPrice(a, bs) THEN Thrown("RangeError")
            ELSE
            LET bidSize == [i \in 1..numBids |->
                    sizeForQuote(a, quoteUnitForBids * i, bs[i].price)]
            IN  Allocated(WithBidSizes(a, bs, bidSize), WithLiquidity(as, askSize),
                          totalQuoteLiquidity, baseLiquidity,
                          AnyBelow(askSize, a.minSize) \/ AnyBelow(bidSize, a.minSize))

CurveDistribute(a, bs, as) ==
    IF Defined(a.quoteLiquidity) THEN CurveQuoteGiven(a, bs, as)
    ELSE CurveBaseGiven(a, bs, as)

\* the Bid-Ask multipliers running in the Curve direction
BidAskQuoteGivenAsCurve(a, bs, as) == CurveQuoteGiven(a, bs, as)

\* getBidAskBatchLPDetails, quoteLiquidity given (with or without baseLiquidity):
\* bid i (0-based, from the lowest price) gets numBids - i units, ask i gets i + 1;
\* the minimum-size test reads the normalized bid.liquidity
BidAskQuoteGiven(a, bs, as) ==
    LET numBids == Len(bs)
        numAsks == Len(as)
        quoteLiquidity == Val(a.quoteLiquidity)
        quoteUnitForBids == quoteUnit(quoteLiquidity, numBids)
        quoteUnitForAsks == quoteUnit(quoteLiquidity, numAsks)
    IN  IF ZeroPrice(a, bs) \/ ZeroPrice(a, as) THEN Thrown("RangeError")
        ELSE
        LET bidSize == [i \in 1..numBids |->
                sizeForQuote(a, quoteUnitForBids * (numBids - (i - 1)), bs[i].price)]
            newBids == WithBidSizes(a, bs, bidSize)
            askSize == [i \in 1..numAsks |->
                sizeForQuote(a, quoteUnitForAsks * i, as[i].price)]
            totalBaseLiquidity == SumSeq([i \in 1..numAsks |->
                baseForQuote(a, quoteUnitForAsks * i, as[i].price)])
        IN  Allocated(newBids, WithLiquidity(as, askSize),
                      quoteLiquidity, totalBaseLiquidity,
                      AnyBelow(Liquidities(newBids), a.minSize) \/ AnyBelow(askSize, a.minSize))

\* getBidAskBatchLPDetails, only baseLiquidity given
BidAskBaseGiven(a, bs, as) ==
    LET numBids == Len(bs)
        numAsks == Len(as)
        baseLiquidity == Val(a.baseLiquidity)
    IN  IF numAsks = 0 THEN Thrown("DegenerateRange")
        ELSE IF ZeroPrice(a, as) THEN Thrown("MulDivFailed")
        ELSE
        LET closestAskPrice == as[1].price
            weightedSumOfBaseRatios == SumSeq([i \in 1..numAsks |->
                i * mulDivUp(closestAskPrice, a.pricePrecision, as[i].price)])
        IN  IF weightedSumOfBaseRatios = 0 THEN Thrown("RangeError")
            ELSE
            LET baseInClosestAsk ==
                    BigDiv(baseLiquidity * a.pricePrecision, weightedSumOfBaseRatios)
                baseForThisAsk == [i \in 1..numAsks |->
                    BigDiv(baseInClosestAsk * i * closestAskPrice, as[i].price)]
                askSize == [i \in 1..numAsks |->
                    BigDiv(baseForThisAsk[i] * a.sizePrecision, B10(a))]
                quoteFromAsks == SumSeq([i \in 1..numAsks |->
                    BigDiv(baseForThisAsk[i] * as[i].price * Q10(a), B10(a) * a.pricePrecision)])
                totalQuoteLiquidity == IF numBids > 0 THEN quoteFromAsks ELSE 0
                quoteUnitForBids == quoteUnit(quoteFromAsks, numBids)
            IN  IF ZeroPrice(a, bs) THEN Thrown("RangeError")
                ELSE
                LET bidSize == [i \in 1..numBids |->
                        sizeForQuote(a, quoteUnitForBids * (numBids - (i - 1)), bs[i].price)]
                    newBids == WithBidSizes(a, bs, bidSize)
                IN  Allocated(newBids, WithLiquidity(as, askSize),
                              totalQuoteLiquidity, baseLiquidity,
                              AnyBelow(askSize, a.minSize)
                                  \/ AnyBelow(Liquidities(newBids), a.minSize))

BidAskDistribute(a, bs, as) ==
    IF Defined(a.quoteLiquidity) THEN BidAskQuoteGiven(a, bs, as)
    ELSE BidAskBaseGiven(a, bs, as)

----------------------------------------------------------------------------
(* Array.prototype.sort with the comparators of the source (a stable sort) *)

RECURSIVE InsertDesc(_, _)
InsertDesc(p, s) ==
    IF s = <<>> THEN <<p>>
    ELSE IF Head(s).price >= p.price THEN <<Head(s)>> \o InsertDesc(p, Tail(s))
    ELSE <<p>> \o s

RECURSIVE InsertAsc(_, _)
InsertAsc(p, s) ==
    IF s = <<>> THEN <<p>>
    ELSE IF Head(s).price <= p.price THEN <<Head(s)>> \o InsertAsc(p, Tail(s))
    ELSE <<p>> \o s

\* sort((a, b) => Number(b.price - a.price)): highest price first
RECURSIVE sortDescending(_)
sortDescending(s) ==
    IF s = <<>> THEN <<>> ELSE InsertDesc(s[Len(s)], sortDescending(SubSeq(s, 1, Len(s) - 1)))

\* sort((a, b) => Number(a.price - b.price)): lowest price first
RECURSIVE sortAscending(_)
sortAscending(s) ==
    IF s = <<>> THEN <<>> ELSE InsertAsc(s[Len(s)], sortAscending(SubSeq(s, 1, Len(s) - 1)))

\* the bids returned in generation order
sortedBidsUnsorted(shape, s) == s

\* the bids of the returned batchLPDetails: descending in all three shapes
sortedBids(shape, s) == sortDescending(s)

\* the asks of the returned batchLPDetails: descending in Spot, ascending in
\* Curve and Bid-Ask
sortedAsks(shape, s) == IF shape = "Spot" THEN sortDescending(s) ELSE sortAscending(s)

----------------------------------------------------------------------------
(* MinSizeNormalizer *)

RECURSIVE MinOf(_)
MinOf(s) == IF Len(s) = 1 THEN s[1] ELSE Min(s[1], MinOf(Tail(s)))

\* smallest liquidity of a side, <<>> (null) for an empty side
smallestSize(s) == IF s = <<>> THEN <<>> ELSE <<MinOf(Liquidities(s))>>

\* minSizeAtPrice = minSize * price * 10^quoteAssetDecimals / (pricePrecision * sizePrecision)
minSizeAtPrice(minSize, price, sizePrecision, pricePrecision, quoteAssetDecimals) ==
    BigDiv(minSize * price * Pow(10, quoteAssetDecimals), pricePrecision * sizePrecision)

getLPSummaryForMinSize(batchLPDetails, minSize, sizePrecision, pricePrecision, quoteAssetDecimals) ==
    LET smallestBidSize == smallestSize(batchLPDetails.bids)
        smallestAskSize == smallestSize(batchLPDetails.asks)
        scaledBids == [i \in 1..Len(batchLPDetails.bids) |->
            LET position == batchLPDetails.bids[i]
            IN  IF smallestBidSize = <<>> \/ smallestBidSize = <<0>> THEN position
                ELSE [position EXCEPT !.liquidity =
                        BigDiv(position.liquidity
                                 * minSizeAtPrice(minSize, position.price, sizePrecision,
                                                  pricePrecision, quoteAssetDecimals),
                               Val(smallestBidSize))]]
        scaledAsks == [i \in 1..Len(batchLPDetails.asks) |->
            LET position == batchLPDetails.asks[i]
            IN  IF smallestAskSize = <<>> \/ smallestAskSize = <<0>> THEN position
                ELSE [position EXCEPT !.liquidity =
                        BigDiv(position.liquidity * minSize, Val(smallestAskSize))]]
    IN  [bids |-> scaledBids,
         asks |-> scaledAsks,
         quoteLiquidity |-> SumSeq(Liquidities(scaledBids)),
         baseLiquidity |-> SumSeq(Liquidities(scaledAsks))]

\* getLPSummaryForMinSize(batchLPDetails, minSize) of
\* src/concentratedLiquidity/lpSummary.ts: both sides rescaled by
\* minSize / smallest, the aggregates taken over from batchLPDetails
getLPSummaryForMinSizeTwoArg(batchLPDetails, minSize) ==
    LET smallestBidSize == smallestSize(batchLPDetails.bids)
        smallestAskSize == smallestSize(batchLPDetails.asks)
        scaledBids == [i \in 1..Len(batchLPDetails.bids) |->
            LET position == batchLPDetails.bids[i]
            IN  IF smallestBidSize = <<>> \/ smallestBidSize = <<0>> THEN position
                ELSE [position EXCEPT !.liquidity =
                        BigDiv(position.liquidity * minSize, Val(smallestBidSize))]]
        scaledAsks == [i \in 1..Len(batchLPDetails.asks) |->
            LET position == batchLPDetails.asks[i]
            IN  IF smallestAskSize = <<>> \/ smallestAskSize = <<0>> THEN position
                ELSE [position EXCEPT !.liquidity =
                        BigDiv(position.liquidity * minSize, Val(smallestAskSize))]]
    IN  [bids |-> scaledBids,
         asks |-> scaledAsks,
         quoteLiquidity |-> batchLPDetails.quoteLiquidity,
         baseLiquidity |-> batchLPDetails.baseLiquidity]

----------------------------------------------------------------------------
(* getMinAndMaxPrice *)

\* `steps` iterations of the upward loop from maxPrice
RECURSIVE maxPriceAfter(_, _, _, _)
maxPriceAfter(price, steps, tickSize, feeTierBps) ==
    IF steps <= 0 THEN price
    ELSE LET raw == BigDiv(price * (FEE_DENOMINATOR + feeTierBps), FEE_DENOMINATOR)
             aligned == raw - BigMod(raw, tickSize)
             next == IF aligned = price THEN price + tickSize ELSE aligned
         IN  maxPriceAfter(next, steps - 1, tickSize, feeTierBps)

\* `steps` iterations of the downward loop (the running minPrice)
RECURSIVE minPriceAfter(_, _, _, _)
minPriceAfter(price, steps, tickSize, feeTierBps) ==
    IF steps <= 0 THEN price
    ELSE LET raw == BigDiv(price * FEE_DENOMINATOR, FEE_DENOMINATOR + feeTierBps)
             aligned == raw - BigMod(raw, tickSize)
             prev == IF aligned = price THEN price - tickSize ELSE aligned
         IN  minPriceAfter(prev, steps - 1, tickSize, feeTierBps)

getMinAndMaxPrice(bestAskPrice, tickSize, numPricePoints, feeTierBps) ==
    LET pointsPerSide == numPricePoints \div 2
        aligned == bestAskPrice - BigMod(bestAskPrice, tickSize)
        highestBid == IF aligned = bestAskPrice THEN bestAskPrice - tickSize ELSE aligned
    IN  IF pointsPerSide = 0 THEN [minPrice |-> bestAskPrice, maxPrice |-> bestAskPrice]
        ELSE [minPrice |-> minPriceAfter(highestBid, pointsPerSide - 1, tickSize, feeTierBps),
              maxPrice |-> maxPriceAfter(bestAskPrice, pointsPerSide - 1, tickSize, feeTierBps)]

----------------------------------------------------------------------------
(* Inputs of a call *)

Shapes == {"Spot", "Curve", "BidAsk"}

\* minFeesBps: no fee, and a fee large enough to compound at small prices
Fees == {0, 5000}

\* pricePrecision, sizePrecision (powers of ten) and the asset decimals
Markets ==
    { [pricePrecision |-> 1, sizePrecision |-> 1, quoteAssetDecimals |-> 0, baseAssetDecimals |-> 0],
      [pricePrecision |-> 1, sizePrecision |-> 10, quoteAssetDecimals |-> 0, baseAssetDecimals |-> 0],
      [pricePrecision |-> 10, sizePrecision |-> 10, quoteAssetDecimals |-> 1, baseAssetDecimals |-> 0],
      [pricePrecision |-> 10, sizePrecision |-> 1, quoteAssetDecimals |-> 0, baseAssetDecimals |-> 1] }

\* <<quoteLiquidity, baseLiquidity>>, each optional
LiquidityTotals ==
    { << <<q>>, <<>> >> : q \in 0..MaxLiquidity }
    \cup { << <<>>, <<b>> >> : b \in {0, MaxLiquidity, 10 * MaxLiquidity} }
    \cup { << <<q>>, <<MaxLiquidity>> >> : q \in {MaxLiquidity - 1, MaxLiquidity} }
    \cup { << <<>>, <<>> >> }

Call(shape, fee, start, end, best, tick, market, minSize, totals, points) ==
    [shape |-> shape, minFeesBps |-> fee, startPrice |-> start, endPrice |-> end,
     bestAskPrice |-> best, tickSize |-> tick,
     pricePrecision |-> market.pricePrecision, sizePrecision |-> market.sizePrecision,
     quoteAssetDecimals |-> market.quoteAssetDecimals,
     baseAssetDecimals |-> market.baseAssetDecimals,
     minSize |-> minSize, quoteLiquidity |-> totals[1], baseLiquidity |-> totals[2],
     maxPricePoints |-> points]

UnitMarket ==
    [pricePrecision |-> 1, sizePrecision |-> 1, quoteAssetDecimals |-> 0, baseAssetDecimals |-> 0]

\* calls that vary the price range, the tick and maxPricePoints
GridCalls ==
    { Call(shape, fee, start, end, best, tick, UnitMarket, 1,
           << <<MaxLiquidity>>, <<>> >>, points) :
        shape \in Shapes, fee \in Fees, start \in 1..MaxStartPrice, end \in 1..MaxEndPrice,
        best \in 1..MaxBestAsk, tick \in 1..MaxTick,
        points \in {<<>>} \cup { <<n>> : n \in 0..MaxPricePoints } }

\* calls that vary the liquidity totals, the market scale and minSize
LiquidityCalls ==
    { Call(shape, fee, start, end, best, tick, market, minSize, totals, <<>>) :
        shape \in Shapes, fee \in Fees, start \in 1..3, end \in 4..6,
        best \in {2, 4}, tick \in {1, 2}, market \in Markets, minSize \in {1, 3},
        totals \in LiquidityTotals }

\* calls with a ladder longer than maxPricePoints from a tick-aligned startPrice
WideRangeCalls ==
    { Call(shape, 2500, start, end, 7, 1, UnitMarket, 1, << <<MaxLiquidity>>, <<>> >>, <<n>>) :
        shape \in Shapes, start \in {4, 5}, end \in {10, 11}, n \in {4, 5} }

\* calls over the range getMinAndMaxPrice computes around bestAskPrice, as
\* examples/v2/calculatePriceRange.ts obtains it (ranges starting above 0)
SymmetricRangeCalls ==
    { c \in { LET range == getMinAndMaxPrice(best, tick, n, fee)
              IN  Call(shape, fee, range.minPrice, range.maxPrice, best, tick, UnitMarket, 1,
                       << <<MaxLiquidity>>, <<>> >>, <<>>) :
                shape \in Shapes, fee \in Fees, best \in 1..MaxBestAsk, tick \in 1..MaxTick,
                n \in 0..MaxNumPricePoints } :
        c.startPrice > 0 }

Inputs == GridCalls \cup LiquidityCalls \cup WideRangeCalls \cup SymmetricRangeCalls

\* the calls of the termination check: every range, tick and fee, with the
\* pre-check skipped, passed or failed
TerminationCalls ==
    { Call(shape, fee, start, end, best, tick, UnitMarket, 1,
           << <<MaxLiquidity>>, <<>> >>, points) :
        shape \in Shapes, fee \in Fees, start \in 1..MaxStartPrice, end \in 1..MaxEndPrice,
        best \in {MaxBestAsk \div 2, MaxBestAsk}, tick \in 1..MaxTick,
        points \in {<<>>, <<MaxPricePoints>>} }

----------------------------------------------------------------------------
(* One call of get<Shape>BatchLPDetails *)

InitOf(calls) ==
    /\ args \in calls
    /\ pc = "call"
    /\ currentPrice = args.startPrice
    /\ bids = <<>>
    /\ asks = <<>>
    /\ result = <<>>
    /\ err = ""

Init == InitOf(Inputs)

Throw(e) ==
    /\ pc' = "error"
    /\ err' = e
    /\ result' = <<>>

\* the missing-total check left out
missingLiquidityTotalNever(a) == FALSE

\* if (quoteLiquidity === undefined && baseLiquidity === undefined) throw
missingLiquidityTotal(a) == ~Defined(a.quoteLiquidity) /\ ~Defined(a.baseLiquidity)

\* the range pre-check, the missing-total check, the alignment of startPrice
Enter ==
    /\ pc = "call"
    /\ IF /\ Defined(args.maxPricePoints)
          /\ maxReachableFails(
                 maxReachablePrice(args.startPrice, args.minFeesBps, Val(args.maxPricePoints)),
                 args.endPrice)
       THEN Throw("RangeTooWide") /\ UNCHANGED currentPrice
       ELSE IF missingLiquidityTotal(args)
       THEN Throw("MissingLiquidityTotal") /\ UNCHANGED currentPrice
       ELSE /\ currentPrice' = alignStart(args.startPrice, args.tickSize)
            /\ pc' = "bidLoop"
            /\ UNCHANGED <<result, err>>
    /\ UNCHANGED <<args, bids, asks>>

\* one iteration of while (currentPrice < maxPrice)
BidStep ==
    /\ pc = "bidLoop"
    /\ currentPrice < maxPrice
    /\ Len(bids) + Len(asks) < MaxLadder
    /\ LET next == nextPrice(currentPrice, args.minFeesBps, args.tickSize)
           flipPrice == bidFlipPrice(next, args.minFeesBps, args.tickSize)
       IN  /\ bids' = Append(bids, Position(currentPrice, flipPrice, 0))
           /\ currentPrice' = next
    /\ UNCHANGED <<args, pc, asks, result, err>>

\* the bid loop's test fails
BidLoopExit ==
    /\ pc = "bidLoop"
    /\ ~(currentPrice < maxPrice)
    /\ pc' = "askLoop"
    /\ UNCHANGED <<args, currentPrice, bids, asks, result, err>>

\* one iteration of while (currentPrice < endPrice)
AskStep ==
    /\ pc = "askLoop"
    /\ currentPrice < args.endPrice
    /\ Len(bids) + Len(asks) < MaxLadder
    /\ LET flipPrice == askFlipPrice(currentPrice, args.minFeesBps, args.tickSize)
       IN  asks' = Append(asks, Position(currentPrice, flipPrice, 0))
    /\ currentPrice' = nextPrice(currentPrice, args.minFeesBps, args.tickSize)
    /\ UNCHANGED <<args, pc, bids, result, err>>

\* a zero quote total rejected before the distribution
DistributeRejectingZero(a, bs, as) ==
    IF Defined(a.quoteLiquidity) /\ Val(a.quoteLiquidity) = 0 THEN Thrown("DegenerateRange")
    ELSE IF a.shape = "Spot" THEN SpotDistribute(a, bs, as)
    ELSE IF a.shape = "Curve" THEN CurveDistribute(a, bs, as)
    ELSE BidAskDistribute(a, bs, as)

Distribute(a, bs, as) ==
    IF a.shape = "Spot" THEN SpotDistribute(a, bs, as)
    ELSE IF a.shape = "Curve" THEN CurveDistribute(a, bs, as)
    ELSE BidAskDistribute(a, bs, as)

\* the ask loop's test fails: liquidity distribution, the sort of both sides,
\* getLPSummaryForMinSize and the return (or the throw)
Finish ==
    /\ pc = "askLoop"
    /\ ~(currentPrice < args.endPrice)
    /\ LET d == Distribute(args, bids, asks)
       IN  IF d.err # ""
           THEN /\ Throw(d.err)
                /\ UNCHANGED <<bids, asks>>
           ELSE LET batchLPDetails ==
                        [bids |-> sortedBids(args.shape, d.bids),
                         asks |-> sortedAsks(args.shape, d.asks),
                         quoteLiquidity |-> d.quoteLiquidity,
                         baseLiquidity |-> d.baseLiquidity,
                         minSizeError |-> d.minSizeError]
                    lpSummary ==
                        getLPSummaryForMinSize(batchLPDetails, args.minSize, args.sizePrecision,
                                               args.pricePrecision, args.quoteAssetDecimals)
                IN  /\ bids' = batchLPDetails.bids
                    /\ asks' = batchLPDetails.asks
                    /\ result' = << [batchLPDetails |-> batchLPDetails, lpSummary |-> lpSummary] >>
                    /\ pc' = "done"
                    /\ err' = ""
    /\ UNCHANGED <<args, currentPrice>>

Next == Enter \/ BidStep \/ BidLoopExit \/ AskStep \/ Finish

Spec == Init /\ [][Next]_vars

\* the call is synchronous: the checks and both loops run on until they exit
FairSpec ==
    /\ InitOf(TerminationCalls)
    /\ [][Next]_vars
    /\ WF_vars(Enter) /\ WF_vars(BidStep) /\ WF_vars(BidLoopExit) /\ WF_vars(AskStep)

----------------------------------------------------------------------------
(* Direct calls of the exported helpers: one call, one return *)

NormalizeCalls ==
    { [fn |-> "normalizeBidSize", price |-> price, sizePrecision |-> sizePrecision,
       bidSize |-> bidSize] :
        price \in 1..MaxPrice, sizePrecision \in 1..MaxSizePrecision,
        bidSize \in 0..MaxBidSize }

\* a side of up to two positions with liquidity 0..MaxPositionSize
Sides(prices) ==
    LET P == { Position(price, 0, liquidity) :
                  price \in prices, liquidity \in 0..MaxPositionSize }
    IN  {<<>>} \cup { <<p>> : p \in P } \cup { <<p, q>> : p \in P, q \in P }

\* batches as the engine returns them in a market of unit scale: quoteLiquidity
\* the quote value of the bids, baseLiquidity the base amount of the asks
BatchInputs ==
    { [bids |-> bs, asks |-> as,
       quoteLiquidity |-> SumSeq([i \in 1..Len(bs) |-> bs[i].liquidity * bs[i].price]),
       baseLiquidity |-> SumSeq(Liquidities(as)),
       minSizeError |-> FALSE] :
        bs \in Sides({1, 2}), as \in Sides({3}) }

\* the summary function of part_014 ("lpSummary/5") and the one of
\* src/concentratedLiquidity/lpSummary.ts ("lpSummary/2"), called on a batch
SummaryCalls ==
    { [fn |-> fn, batchLPDetails |-> b, minSize |-> minSize, sizePrecision |-> 1,
       pricePrecision |-> 1, quoteAssetDecimals |-> 0] :
        fn \in {"lpSummary/5", "lpSummary/2"}, b \in BatchInputs, minSize \in {1, 3} }

MulDivCalls ==
    { [fn |-> "mulDivUp", x |-> x, y |-> y, d |-> d] :
        x \in 0..MaxFactor, y \in 0..MaxFactor, d \in 0..MaxDenominator }

Log10Calls == { [fn |-> "log10BigNumber", bn |-> bn] : bn \in 0..MaxBigNumber }

HelperCalls == NormalizeCalls \cup SummaryCalls \cup MulDivCalls \cup Log10Calls

HelperInit ==
    /\ args \in HelperCalls
    /\ pc = "helper"
    /\ currentPrice = 0
    /\ bids = <<>>
    /\ asks = <<>>
    /\ result = <<>>
    /\ err = ""

Return(value) ==
    /\ result' = <<value>>
    /\ pc' = "done"
    /\ UNCHANGED <<args, currentPrice, bids, asks, err>>

Fail(e) ==
    /\ Throw(e)
    /\ UNCHANGED <<args, currentPrice, bids, asks>>

CallNormalizeBidSize ==
    /\ pc = "helper" /\ args.fn = "normalizeBidSize"
    /\ Return(normalizeBidSize(args.price, args.sizePrecision, args.bidSize))

\* the rescaled positions written back into the input's arrays
batchAfterSummaryInPlace(batchLPDetails, lpSummary) ==
    [batchLPDetails EXCEPT !.bids = lpSummary.bids, !.asks = lpSummary.asks]

\* the caller's batchLPDetails after the call: map() builds new arrays of
\* { ...position } copies and nothing is assigned to the input
batchAfterSummary(batchLPDetails, lpSummary) == batchLPDetails

ReturnSummary(lpSummary) ==
    /\ result' = <<lpSummary>>
    /\ pc' = "done"
    /\ args' = [args EXCEPT !.batchLPDetails = batchAfterSummary(@, lpSummary)]
    /\ UNCHANGED <<currentPrice, bids, asks, err>>

CallLPSummary ==
    /\ pc = "helper" /\ args.fn = "lpSummary/5"
    /\ ReturnSummary(getLPSummaryForMinSize(args.batchLPDetails, args.minSize,
                                            args.sizePrecision, args.pricePrecision,
                                            args.quoteAssetDecimals))

CallLPSummaryTwoArg ==
    /\ pc = "helper" /\ args.fn = "lpSummary/2"
    /\ ReturnSummary(getLPSummaryForMinSizeTwoArg(args.batchLPDetails, args.minSize))

CallMulDivUp ==
    /\ pc = "helper" /\ args.fn = "mulDivUp"
    /\ IF args.d = 0 THEN Fail("MulDivFailed")
       ELSE Return(mulDivUp(args.x, args.y, args.d))

CallLog10BigNumber ==
    /\ pc = "helper" /\ args.fn = "log10BigNumber"
    /\ IF args.bn = 0 THEN Fail("Log10 of zero is undefined")
       ELSE Return(log10BigNumber(args.bn))

HelperNext ==
    \/ CallNormalizeBidSize
    \/ CallLPSummary
    \/ CallLPSummaryTwoArg
    \/ CallMulDivUp
    \/ CallLog10BigNumber

HelperSpec == HelperInit /\ [][HelperNext]_vars

----------------------------------------------------------------------------
(* Properties *)

Returned == pc = "done"
batch == result[1].batchLPDetails
summary == result[1].lpSummary
QuoteOnly == Defined(args.quoteLiquidity) /\ ~Defined(args.baseLiquidity)
InLoop == pc \in {"bidLoop", "askLoop"}

Prices(s) == [i \in 1..Len(s) |-> s[i].price]
StrictlyIncreasing(s) == \A i \in 1..(Len(s) - 1) : s[i] < s[i + 1]
StrictlyDecreasing(s) == \A i \in 1..(Len(s) - 1) : s[i] > s[i + 1]

\* quote value of a position: price x liquidity converted back to quote units
quoteEquivalent(a, p) ==
    BigDiv(p.liquidity * p.price * Q10(a), a.sizePrecision * a.pricePrecision)

bidsQuoteTotal == SumSeq([i \in 1..Len(batch.bids) |-> quoteEquivalent(args, batch.bids[i])])

\* quote value of one unit of size at the highest bid, at least one quote unit
roundingUnit ==
    LET top == mulDivUp(MinOf([i \in 1..Len(batch.bids) |-> -batch.bids[i].price]) * (-1),
                        Q10(args), args.sizePrecision * args.pricePrecision)
    IN  IF top > 1 THEN top ELSE 1

\* C1 (as stated): in a quote-given solve with at least one bid the bids' quote
\* equivalents sum to quoteLiquidity within one rounding unit (read generously:
\* the quote value of one unit of size, and never less than one quote unit).
C1_SumWithinOneUnit ==
    (Returned /\ QuoteOnly /\ batch.bids # <<>>) =>
        Abs(Val(args.quoteLiquidity) - bidsQuoteTotal) <= roundingUnit

\* C1 (amended): in a quote-given solve with at least one bid the bids' quote
\* equivalents never sum to more than quoteLiquidity: per-position floors and
\* normalizeBidSize only under-allocate, by an amount that grows with the
\* number of bids.
C1_SumNeverExceeds ==
    (Returned /\ QuoteOnly /\ batch.bids # <<>>) =>
        bidsQuoteTotal <= Val(args.quoteLiquidity)

C1_Witness ==
    /\ Returned /\ QuoteOnly /\ Len(batch.bids) >= 2
    /\ bidsQuoteTotal > 0
    /\ bidsQuoteTotal < Val(args.quoteLiquidity)

SideLiquidityMinIs(input, output, minSize) ==
    (input # <<>> /\ MinOf(Liquidities(input)) # 0) => MinOf(Liquidities(output)) = minSize

\* C2: after getLPSummaryForMinSize, on each non-empty side whose minimum
\* input liquidity is non-zero, the minimum rescaled liquidity is minSize.
C2_MinIsMinSize ==
    Returned =>
        /\ SideLiquidityMinIs(batch.bids, summary.bids, args.minSize)
        /\ SideLiquidityMinIs(batch.asks, summary.asks, args.minSize)

\* C3: minSizeError is true iff some returned position has liquidity < minSize.
C3_FlagIffUndersized ==
    Returned =>
        (batch.minSizeError <=>
            \/ AnyBelow(Liquidities(batch.bids), args.minSize)
            \/ AnyBelow(Liquidities(batch.asks), args.minSize))

AllTickMultiples(s) == \A i \in 1..Len(s) : s[i].price % args.tickSize = 0

\* C4: every price of every generated bid and ask is a multiple of tickSize.
C4_PricesOnTicks == AllTickMultiples(bids) /\ AllTickMultiples(asks)

C4_Witness ==
    /\ Returned
    /\ args.startPrice % args.tickSize # 0
    /\ Len(bids) >= 2 /\ Len(asks) >= 1

C6_StrictProgress ==
    InLoop => StrictlyIncreasing(Prices(bids) \o Prices(asks) \o <<currentPrice>>)

\* the fee-compounded price floored back to the position's own tick
C6_Witness ==
    /\ pc = "askLoop"
    /\ bids # <<>> /\ asks # <<>>
    /\ LET p == asks[Len(asks)].price
       IN  /\ nextPriceNoForce(p, args.minFeesBps, args.tickSize) = p
           /\ currentPrice = p + args.tickSize
    /\ args.minFeesBps > 0

\* C7 (as stated): the returned bids and the returned asks are each ordered by
\* strictly increasing price.
C7_BothAscending ==
    Returned =>
        /\ StrictlyIncreasing(Prices(batch.bids))
        /\ StrictlyIncreasing(Prices(batch.asks))

\* C7 (amended): the returned bids are ordered by strictly decreasing price in
\* all three shapes; the returned asks by strictly increasing price in Curve
\* and Bid-Ask and by strictly decreasing price in Flat/Spot.
C7_SortedAsTheCodeSorts ==
    Returned =>
        /\ StrictlyDecreasing(Prices(batch.bids))
        /\ IF args.shape = "Spot"
           THEN StrictlyDecreasing(Prices(batch.asks))
           ELSE StrictlyIncreasing(Prices(batch.asks))

C7_Witness ==
    /\ Returned
    /\ Len(batch.bids) >= 2 /\ Len(batch.asks) >= 2
    /\ args.shape = "Spot"

\* C8: with maxPricePoints supplied and the pre-check passed, the ladder has at
\* most maxPricePoints positions.
C8_AtMostMaxPricePoints ==
    (Defined(args.maxPricePoints) /\ pc # "call") =>
        Len(bids) + Len(asks) <= Val(args.maxPricePoints)

\* one iteration of the bid loop or of the ask loop
LoopIteration == InLoop /\ Len(bids') + Len(asks') = Len(bids) + Len(asks) + 1

\* the call threw in its checks, or both loops have exited
LoopsExited ==
    \/ pc \in {"done", "error"}
    \/ pc = "askLoop" /\ ~(currentPrice < args.endPrice)

\* C9: once the pre-check passes (or is skipped), every loop iteration raises
\* the current price by at least tickSize, and the bid loop and then the ask
\* loop exit.
C9_Terminates ==
    /\ [][LoopIteration => currentPrice' >= currentPrice + args.tickSize]_vars
    /\ <>LoopsExited

C9_Witness ==
    /\ Returned
    /\ Len(bids) >= 2 /\ Len(asks) >= 2
    /\ args.minFeesBps = 0

\* floor(startPrice * (10000 + minFeesBps)^n / 10000^n) <= endPrice, stated
\* without the division
ReachableWithin(a, n) ==
    LET g == Gcd(FEE_DENOMINATOR + a.minFeesBps, FEE_DENOMINATOR)
    IN  a.startPrice * Pow((FEE_DENOMINATOR + a.minFeesBps) \div g, n)
            < (a.endPrice + 1) * Pow(FEE_DENOMINATOR \div g, n)

BothGiven == Defined(args.quoteLiquidity) /\ Defined(args.baseLiquidity)

\* size of an even share of the side's total: total / count converted to size
\* in one division, as the both-given branch of getSpotBatchLPDetails does
evenBidSize(a, p, numBids) ==
    BigDiv(Val(a.quoteLiquidity) * a.sizePrecision * a.pricePrecision,
           numBids * p.price * Q10(a))
evenAskSize(a, numAsks) ==
    BigDiv(Val(a.baseLiquidity) * a.sizePrecision, numAsks * B10(a))

\* C11: with both totals supplied, in every shape each bid holds the even
\* share quoteLiquidity / numBids, each ask the even share
\* baseLiquidity / numAsks, and the returned baseLiquidity is the supplied one.
C11_BothGivenSplitsEvenly ==
    (Returned /\ BothGiven) =>
        /\ batch.baseLiquidity = Val(args.baseLiquidity)
        /\ \A i \in 1..Len(batch.bids) :
               batch.bids[i].liquidity =
                   normalizeBidSize(batch.bids[i].price, args.sizePrecision,
                                    evenBidSize(args, batch.bids[i], Len(batch.bids)))
        /\ \A i \in 1..Len(batch.asks) :
               batch.asks[i].liquidity = evenAskSize(args, Len(batch.asks))

\* C12: in Flat/Spot with only quoteLiquidity given, each bid is sized from the
\* share quoteLiquidity / numBids and each ask from quoteLiquidity / numAsks.
C12_SpotSharePerSide ==
    (Returned /\ QuoteOnly /\ args.shape = "Spot") =>
        /\ \A i \in 1..Len(batch.bids) :
               batch.bids[i].liquidity =
                   normalizeBidSize(batch.bids[i].price, args.sizePrecision,
                       sizeForQuote(args, BigDiv(Val(args.quoteLiquidity), Len(batch.bids)),
                                    batch.bids[i].price))
        /\ \A i \in 1..Len(batch.asks) :
               batch.asks[i].liquidity =
                   sizeForQuote(args, BigDiv(Val(args.quoteLiquidity), Len(batch.asks)),
                                batch.asks[i].price)

\* floor(2 * total / (N * (N + 1)))
triangularUnit(total, n) == (2 * total) \div (n * (n + 1))

\* the quote allotted to index i (0-based, from the side's outer edge: lowest
\* bid, highest ask) of a side of n positions
risingToSpread(total, n) == [i \in 0..(n - 1) |-> (i + 1) * triangularUnit(total, n)]
fallingToSpread(total, n) == [i \in 0..(n - 1) |-> (n - i) * triangularUnit(total, n)]

\* the sizes a side holds under an allotment.  Returned order: bids highest
\* price first, asks (Curve, Bid-Ask) lowest first, so position k of a side of
\* N is at index N - k from the side's outer edge
BidsHoldAllotment(a, bs, allot) ==
    \A k \in 1..Len(bs) :
        bs[k].liquidity =
            normalizeBidSize(bs[k].price, a.sizePrecision,
                             sizeForQuote(a, allot[Len(bs) - k], bs[k].price))
AsksHoldAllotment(a, as, allot) ==
    \A k \in 1..Len(as) :
        as[k].liquidity = sizeForQuote(a, allot[Len(as) - k], as[k].price)

\* C13: in Curve with quoteLiquidity given, the position at index i from its
\* side's outer edge is allotted (i + 1) * unit quote,
\* unit = floor(2 * quoteLiquidity / (N * (N + 1))): least at the edges, most
\* next to the spread.
C13_CurveAllotment ==
    (Returned /\ args.shape = "Curve" /\ Defined(args.quoteLiquidity)) =>
        /\ BidsHoldAllotment(args, batch.bids, risingToSpread(Val(args.quoteLiquidity), Len(batch.bids)))
        /\ AsksHoldAllotment(args, batch.asks, risingToSpread(Val(args.quoteLiquidity), Len(batch.asks)))

C13_Witness ==
    /\ Returned /\ args.shape = "Curve" /\ Defined(args.quoteLiquidity)
    /\ Len(batch.bids) >= 2 /\ Len(batch.asks) >= 2
    /\ batch.bids[1].liquidity * batch.bids[1].price
           > batch.bids[Len(batch.bids)].liquidity * batch.bids[Len(batch.bids)].price
    /\ batch.asks[1].liquidity * batch.asks[1].price
           > batch.asks[Len(batch.asks)].liquidity * batch.asks[Len(batch.asks)].price
    /\ batch.asks[Len(batch.asks)].liquidity > 0

\* C14 (as stated): in Bid-Ask with quoteLiquidity given, the allotment is
\* highest next to the spread and falls linearly toward the outer edge.
C14_BidAskHighestAtSpread ==
    (Returned /\ args.shape = "BidAsk" /\ Defined(args.quoteLiquidity)) =>
        /\ BidsHoldAllotment(args, batch.bids, risingToSpread(Val(args.quoteLiquidity), Len(batch.bids)))
        /\ AsksHoldAllotment(args, batch.asks, risingToSpread(Val(args.quoteLiquidity), Len(batch.asks)))

\* C14 (amended): in Bid-Ask with quoteLiquidity given, the allotment is lowest
\* next to the spread and rises linearly toward the outer edge: the position at
\* index i from its side's outer edge is allotted (N - i) * unit quote,
\* unit = floor(2 * quoteLiquidity / (N * (N + 1))).
C14_BidAskLowestAtSpread ==
    (Returned /\ args.shape = "BidAsk" /\ Defined(args.quoteLiquidity)) =>
        /\ BidsHoldAllotment(args, batch.bids, fallingToSpread(Val(args.quoteLiquidity), Len(batch.bids)))
        /\ AsksHoldAllotment(args, batch.asks, fallingToSpread(Val(args.quoteLiquidity), Len(batch.asks)))

C14_Witness ==
    /\ Returned /\ args.shape = "BidAsk" /\ Defined(args.quoteLiquidity)
    /\ Len(batch.bids) >= 2 /\ Len(batch.asks) >= 2
    /\ batch.bids[1].liquidity * batch.bids[1].price
           < batch.bids[Len(batch.bids)].liquidity * batch.bids[Len(batch.bids)].price
    /\ batch.asks[1].liquidity > 0
    /\ batch.asks[1].liquidity * batch.asks[1].price
           < batch.asks[Len(batch.asks)].liquidity * batch.asks[Len(batch.asks)].price

\* mathematical floor and ceiling of a / b, b > 0
FloorDiv(a, b) == IF a >= 0 THEN a \div b ELSE -((-a + b - 1) \div b)
CeilDiv(a, b) == -FloorDiv(-a, b)

NormalizeReturned == pc = "done" /\ args.fn = "normalizeBidSize"

\* C15: for price > 0, sizePrecision > 0 and rawSize >= 0,
\* ceil(price * normalizeBidSize(price, sizePrecision, rawSize) / sizePrecision)
\*     <= floor(price * rawSize / sizePrecision).
C15_CeilingWithinFloor ==
    NormalizeReturned =>
        CeilDiv(args.price * result[1], args.sizePrecision)
            <= FloorDiv(args.price * args.bidSize, args.sizePrecision)

\* a size that was cut, by a step the division sizePrecision / price rounds
C15_Witness ==
    /\ NormalizeReturned
    /\ result[1] > 0 /\ result[1] < args.bidSize
    /\ args.sizePrecision % args.price # 0

\* every position of the side rescaled by the one ratio minSize / m, m the
\* side's smallest input liquidity (division truncating as bigint does)
SideScaledByOneRatio(input, output, minSize) ==
    (input # <<>> /\ MinOf(Liquidities(input)) # 0) =>
        \A i \in 1..Len(input) :
            output[i].liquidity =
                BigDiv(input[i].liquidity * minSize, MinOf(Liquidities(input)))

\* C16: getLPSummaryForMinSize applies one ratio minSize / m per side with
\* non-zero minimum m: every rescaled liquidity is
\* floor(preNormalizationLiquidity * minSize / m), for bids as well as asks.
C16_OneRatioPerSide ==
    Returned =>
        /\ SideScaledByOneRatio(batch.bids, summary.bids, args.minSize)
        /\ SideScaledByOneRatio(batch.asks, summary.asks, args.minSize)

SummaryReturned == pc = "done" /\ args.fn \in {"lpSummary/5", "lpSummary/2"}

\* C17: for every input BatchLPDetails the aggregates of the LPSummary are
\* recomputed: quoteLiquidity is the sum of the rescaled bids' sizes and
\* baseLiquidity the sum of the rescaled asks' sizes.
C17_AggregatesRecomputed ==
    SummaryReturned =>
        /\ result[1].quoteLiquidity = SumSeq(Liquidities(result[1].bids))
        /\ result[1].baseLiquidity = SumSeq(Liquidities(result[1].asks))

lowestAsk == MinOf(Prices(asks))

ladder == Prices(bids) \o Prices(asks) \o <<currentPrice>>

\* C19: the flipPrice of a bid at p is the step rule applied twice to p, the
\* price of the ladder position two steps above the bid; it is a tick multiple
\* and flipPrice > step(p) > p.
C19_BidFlipTwoSteps ==
    /\ \A i \in 1..Len(bids) :
           LET p == bids[i].price
               step1 == nextPrice(p, args.minFeesBps, args.tickSize)
               step2 == nextPrice(step1, args.minFeesBps, args.tickSize)
           IN  /\ bids[i].flipPrice = step2
               /\ bids[i].flipPrice % args.tickSize = 0
               /\ bids[i].flipPrice > step1 /\ step1 > p
    /\ InLoop =>
           \A i \in 1..Len(bids) :
               (i + 2 <= Len(ladder)) => bids[i].flipPrice = ladder[i + 2]

\* the last bid flips at the second ask, two fee-compounded steps up
C19_Witness ==
    /\ pc = "askLoop"
    /\ Len(bids) >= 2 /\ Len(asks) >= 2
    /\ args.minFeesBps > 0
    /\ bids[Len(bids)].flipPrice = asks[2].price
    /\ asks[2].price > bids[Len(bids)].price + 2 * args.tickSize

\* C20: the flipPrice of an ask at p > 0, 0 <= minFeesBps < 10000, is a
\* multiple of tickSize, at most floor(p * (10000 - minFeesBps)^2 / 10000^2),
\* and strictly less than p.
C20_AskFlipBelowPrice ==
    \A i \in 1..Len(asks) :
        LET p == asks[i].price
            flip == asks[i].flipPrice
        IN  (p > 0 /\ 0 <= args.minFeesBps /\ args.minFeesBps < FEE_DENOMINATOR) =>
                /\ flip % args.tickSize = 0
                /\ flip <= (p * (FEE_DENOMINATOR - args.minFeesBps)
                              * (FEE_DENOMINATOR - args.minFeesBps))
                           \div (FEE_DENOMINATOR * FEE_DENOMINATOR)
                /\ flip < p

\* the compounded value collapses to p (no fee), and an ask compounded down
\* through more than one tick
C20_Witness ==
    /\ Returned
    /\ Len(asks) >= 2
    /\ \/ args.minFeesBps = 0 /\ args.tickSize >= 2
          /\ \A i \in 1..Len(asks) : asks[i].flipPrice = asks[i].price - args.tickSize
       \/ args.minFeesBps > 0
          /\ \E i \in 1..Len(asks) : asks[i].flipPrice < asks[i].price - 2 * args.tickSize

BaseOnly == Defined(args.baseLiquidity) /\ ~Defined(args.quoteLiquidity)
Ended == pc \in {"done", "error"}

\* C21: a base-given solve on a ladder without asks fails with an error and
\* returns no BatchLPDetails, in each of the three shapes.
C21_BaseGivenNeedsAsks ==
    (Ended /\ BaseOnly /\ asks = <<>>) =>
        (pc = "error" /\ err # "" /\ result = <<>>)

\* the ladder was generated and has bids only
C21_Witness ==
    /\ pc = "error" /\ BaseOnly
    /\ Len(bids) >= 2 /\ asks = <<>>
    /\ err = "DegenerateRange"
    /\ args.shape = "Curve"

ZeroQuoteTotal == Defined(args.quoteLiquidity) /\ Val(args.quoteLiquidity) = 0

\* C22 (as stated): when the quote total is zero the call fails with
\* DegenerateRange instead of returning a ladder of zero-size positions.
C22_ZeroTotalFails ==
    (Ended /\ ZeroQuoteTotal /\ err # "RangeTooWide") =>
        (pc = "error" /\ err = "DegenerateRange")

\* C22 (amended): a zero quote total is never answered with DegenerateRange:
\* a call that returns gives back the ladder with every bid of size zero (every
\* position, when only quoteLiquidity was given) and, for minSize > 0,
\* minSizeError set whenever the ladder has such a position.
C22_ZeroTotalReturnsZeroSizes ==
    ZeroQuoteTotal =>
        /\ err # "DegenerateRange"
        /\ Returned =>
               /\ \A i \in 1..Len(batch.bids) : batch.bids[i].liquidity = 0
               /\ QuoteOnly => \A i \in 1..Len(batch.asks) : batch.asks[i].liquidity = 0
               /\ (args.minSize > 0 /\ (batch.bids # <<>> \/ (QuoteOnly /\ batch.asks # <<>>)))
                      => batch.minSizeError

C22_Witness ==
    /\ Returned /\ ZeroQuoteTotal
    /\ Len(batch.bids) >= 2 /\ batch.asks # <<>>
    /\ batch.minSizeError

\* C23: a call with neither total fails with MissingLiquidityTotal, whenever
\* the range pre-check did not already fail, and no ladder is built or returned.
C23_MissingTotalFails ==
    (pc # "call" /\ ~Defined(args.quoteLiquidity) /\ ~Defined(args.baseLiquidity)) =>
        /\ pc = "error"
        /\ bids = <<>> /\ asks = <<>> /\ result = <<>>
        /\ IF Defined(args.maxPricePoints)
                /\ ReachableWithin(args, Val(args.maxPricePoints))
           THEN err = "RangeTooWide"
           ELSE err = "MissingLiquidityTotal"

C23_Witness ==
    /\ pc = "error" /\ err = "MissingLiquidityTotal"
    /\ args.startPrice < args.bestAskPrice /\ args.bestAskPrice < args.endPrice

MulDivEnded == Ended /\ args.fn = "mulDivUp"

\* C24: for x, y >= 0 and d > 0, mulDivUp(x, y, d) >= floor(x * y / d), equal
\* exactly when (x * y) mod d = 0 and one more otherwise; for d = 0 the call
\* fails and returns nothing.
C24_MulDivUpIsCeiling ==
    MulDivEnded =>
        IF args.d = 0 THEN pc = "error" /\ result = <<>>
        ELSE LET floor == (args.x * args.y) \div args.d
                 exact == (args.x * args.y) % args.d = 0
             IN  /\ pc = "done"
                 /\ result[1] >= floor
                 /\ (result[1] = floor) <=> exact
                 /\ ~exact => result[1] = floor + 1

C24_Witness ==
    /\ MulDivEnded /\ pc = "done"
    /\ args.x > 1 /\ args.y > 1 /\ args.d > 1
    /\ (args.x * args.y) % args.d # 0
    /\ result[1] > 1

\* the k >= 1 with 10^(k-1) <= n < 10^k
RECURSIVE digitCount(_)
digitCount(n) == IF n < 10 THEN 1 ELSE 1 + digitCount(n \div 10)

Log10Ended == Ended /\ args.fn = "log10BigNumber"

\* C25 (as stated): for n > 0 log10BigNumber returns the number of base-10
\* digits of n (1 for 1..9, 4 for 1000) and fails for n = 0.
C25_ReturnsDigitCount ==
    Log10Ended =>
        IF args.bn = 0 THEN pc = "error" /\ result = <<>>
        ELSE pc = "done" /\ result[1] = digitCount(args.bn)

\* C25 (amended): for n > 0 log10BigNumber returns the number of base-10
\* digits of n minus one, floor(log10(n)) (0 for 1..9, 3 for 1000), and fails
\* for n = 0.
C25_ReturnsFloorLog10 ==
    Log10Ended =>
        IF args.bn = 0 THEN pc = "error" /\ result = <<>>
        ELSE /\ pc = "done"
             /\ result[1] = digitCount(args.bn) - 1
             /\ Pow(10, result[1]) <= args.bn
             /\ args.bn < Pow(10, result[1] + 1)

C25_Witness ==
    /\ Log10Ended /\ pc = "done"
    /\ args.bn = 1000 /\ result[1] = 3

\* the output side has the positions of the input side, in order, with the
\* same price and flipPrice
SameButLiquidity(input, output) ==
    /\ Len(output) = Len(input)
    /\ \A i \in 1..Len(input) :
           /\ output[i].price = input[i].price
           /\ output[i].flipPrice = input[i].flipPrice

SummaryCall == pc = "helper" /\ args.fn \in {"lpSummary/5", "lpSummary/2"}

\* C30: getLPSummaryForMinSize changes nothing but liquidity: the LPSummary
\* has the input's bids and asks, in order, each with its price and flipPrice,
\* and the input BatchLPDetails is the same after the call as before.
C30_OnlyLiquidityChanges ==
    [][SummaryCall =>
          /\ SameButLiquidity(args.batchLPDetails.bids, result'[1].bids)
          /\ SameButLiquidity(args.batchLPDetails.asks, result'[1].asks)
          /\ args'.batchLPDetails = args.batchLPDetails]_vars

\* a call whose rescale changed the sizes of both sides
C30_Witness ==
    /\ SummaryReturned
    /\ Len(result[1].bids) = 2 /\ Len(result[1].asks) = 2
    /\ result[1].bids[1].price # result[1].bids[2].price
    /\ Liquidities(result[1].bids) # Liquidities(args.batchLPDetails.bids)
    /\ Liquidities(result[1].asks) # Liquidities(args.batchLPDetails.asks)

\* both loops have run to their end
LadderBuilt == pc = "done" \/ (pc = "askLoop" /\ ~(currentPrice < args.endPrice))

firstAskPrice ==
    getFirstAskPrice(args.minFeesBps, args.startPrice, args.endPrice, args.bestAskPrice,
                     args.tickSize)

\* C26: getFirstAskPrice returns the price of the lowest ask of the ladder
\* generated from the same arguments, and 0 when that ladder has no ask.
C26_FirstAskPriceMatchesLadder ==
    LadderBuilt =>
        IF asks # <<>> THEN firstAskPrice = lowestAsk ELSE firstAskPrice = 0

\* the call's range is the one getMinAndMaxPrice gives for 2k price points
SymmetricRange(k) ==
    LET range == getMinAndMaxPrice(args.bestAskPrice, args.tickSize, 2 * k, args.minFeesBps)
    IN  args.startPrice = range.minPrice /\ args.endPrice = range.maxPrice

\* C27: for numPricePoints = 2k, k >= 1, and a tick-aligned bestAskPrice, the
\* ladder from minPrice to maxPrice has exactly k bids and k asks, the first
\* ask at bestAskPrice and the last ask at maxPrice.
C27_SymmetricLadder ==
    \A k \in 1..(MaxNumPricePoints \div 2) :
        (LadderBuilt /\ SymmetricRange(k) /\ args.bestAskPrice % args.tickSize = 0) =>
            /\ Len(bids) = k
            /\ Len(asks) = k
            /\ lowestAsk = args.bestAskPrice
            /\ -MinOf([i \in 1..Len(asks) |-> -asks[i].price]) = args.endPrice

\* C28: every position's liquidity in a returned BatchLPDetails is
\* non-negative.
C28_LiquidityNonNegative ==
    Returned =>
        /\ \A i \in 1..Len(batch.bids) : batch.bids[i].liquidity >= 0
        /\ \A i \in 1..Len(batch.asks) : batch.asks[i].liquidity >= 0

\* base amount of the asks: each size converted from size precision to base
\* decimals
asksBaseTotal ==
    SumSeq([i \in 1..Len(batch.asks) |->
               BigDiv(batch.asks[i].liquidity * B10(args), args.sizePrecision)])

\* C29: in a base-given solve with at least one ask the base amount of the
\* allocated asks never exceeds the supplied baseLiquidity.
C29_BaseNeverOverAllocated ==
    (Returned /\ BaseOnly /\ batch.asks # <<>>) =>
        asksBaseTotal <= Val(args.baseLiquidity)

\* rounding left part of the supplied base unallocated
C29_Witness ==
    /\ Returned /\ BaseOnly
    /\ Len(batch.asks) >= 2
    /\ args.pricePrecision > 1
    /\ asksBaseTotal > 0
    /\ asksBaseTotal < Val(args.baseLiquidity)

====
